---- MODULE Spec2Model ----
(***************************************************************************)
(* The entity list controllers of the factory-energy admin console         *)
(* (CompanyList, CountryList, CityList, DistrictList, LineTypeList,        *)
(* LineList, MachineList, KpiList): debounced list queries against the     *)
(* remote gateway, the create/edit modal and its submit flow.              *)
(*                                                                         *)
(* Strings that the code inspects character by character (names, search    *)
(* terms, LIKE patterns) are sequences of one-character strings.  Time is  *)
(* counted in milliseconds.                                                *)
(***************************************************************************)
EXTENDS Integers, Sequences, FiniteSets, TLC

\* ------------------------------------------------------------------ bounds
\* Granularity of the clock: time advances by at most TickMs per step.
TickMs == 150
\* Number of submit clicks one behaviour may make.
MaxSubmits == 1
\* Number of changes to search term / sort / page / page size, when the
\* modal is explored as well.
MaxChanges == 1
\* The same, when only the list is explored.
MaxListChanges == 2
\* Number of edits to the modal form (typing, selecting), when the list is
\* explored as well.
MaxEdits == 1
\* The same, when only the modal is explored.
MaxSubmitEdits == 2
\* The same, when only typing into the name field is explored.
MaxNameEdits == 1
\* The same, when only the machine modal is explored.
MaxMachineEdits == 2
\* Number of submit clicks, when two submits of one form are explored.
MaxRaceSubmits == 2
\* Number of edits to the modal form, when two submits of one form are explored.
MaxRaceEdits == 1
\* Number of fetchExistingOrders calls that may be awaiting the gateway at once.
MaxLookups == 1
\* The same, when only the line selections of the machine form are explored.
MaxOrderLookups == 2
\* Number of line selections, when only they are explored.
MaxOrderEdits == 2
\* How many of the displayed rows (from the top) the user clicks Edit on.
MaxEditRow == 1
\* Length of the generated strings the validators are tried on.
MaxLen == 1

\* ------------------------------------------------------- program constants
\* debounce(..., 300)
DebounceWait == 300
\* useState(15): the initial page size
InitialRowsPerPage == 15
\* formData.order default and lower end of the valid machine order range
MinOrder == 1000
\* upper end of the valid machine order range
MaxOrder == 9999

NULL == "null"

Entities == {"company", "country", "city", "district", "line_type", "line", "machine", "kpi"}

Min2(a, b) == IF a < b THEN a ELSE b

Range(f) == {f[i] : i \in DOMAIN f}

\* ------------------------------------------------------------- characters
LowerLetters ==
    <<"a", "b", "c", "d", "e", "f", "g", "h", "i", "j", "k", "l", "m",
      "n", "o", "p", "q", "r", "s", "t", "u", "v", "w", "x", "y", "z">>

UpperLetters ==
    <<"A", "B", "C", "D", "E", "F", "G", "H", "I", "J", "K", "L", "M",
      "N", "O", "P", "Q", "R", "S", "T", "U", "V", "W", "X", "Y", "Z">>

Digits == {"0", "1", "2", "3", "4", "5", "6", "7", "8", "9"}

\* \s of the regexes and of String.prototype.trim
Whitespace == {" ", "\t"}

AllChars ==
    Range(LowerLetters) \cup Range(UpperLetters) \cup Digits \cup Whitespace
    \cup {"-", "_", "%"}

\* String.prototype.toUpperCase, character by character
UpperOf ==
    [c \in AllChars |->
        IF \E i \in 1..26 : LowerLetters[i] = c
        THEN UpperLetters[CHOOSE i \in 1..26 : LowerLetters[i] = c]
        ELSE c]

ToUpperChar(c) == UpperOf[c]

\* the case folding ILIKE does, character by character
LowerOf ==
    [c \in AllChars |->
        IF \E i \in 1..26 : UpperLetters[i] = c
        THEN LowerLetters[CHOOSE i \in 1..26 : UpperLetters[i] = c]
        ELSE c]

ToLowerChar(c) == LowerOf[c]

\* value.toUpperCase()
ToUpperCase(s) == [i \in 1..Len(s) |-> ToUpperChar(s[i])]

\* String.prototype.trim
RECURSIVE TrimLeft(_)
TrimLeft(s) ==
    IF s # <<>> /\ Head(s) \in Whitespace THEN TrimLeft(Tail(s)) ELSE s

RECURSIVE TrimRight(_)
TrimRight(s) ==
    IF s # <<>> /\ s[Len(s)] \in Whitespace
    THEN TrimRight(SubSeq(s, 1, Len(s) - 1))
    ELSE s

Trim(s) == TrimRight(TrimLeft(s))

\* ------------------------------------------------------------- validators
\* /^[cls]*$/.test(s): the automaton of a starred character class
RECURSIVE RegexStarTest(_, _)
RegexStarTest(cls, s) ==
    IF s = <<>> THEN TRUE
    ELSE IF Head(s) \in cls THEN RegexStarTest(cls, Tail(s))
    ELSE FALSE

\* [A-Z\s]
LettersClass == Range(UpperLetters) \cup Whitespace

\* [A-Z0-9\s-]
AlnumClass == Range(UpperLetters) \cup Digits \cup Whitespace \cup {"-"}

\* a company validator with the pattern of the line validator
validateCompanyNameAlnum(name) == RegexStarTest(AlnumClass, name)

validateCompanyName(name) == RegexStarTest(LettersClass, name)

validateCountryName(name) == RegexStarTest(LettersClass, name)

validateCityName(name) == RegexStarTest(LettersClass, name)

validateDistrictName(name) == RegexStarTest(LettersClass, name)

validateLineTypeName(name) == RegexStarTest(LettersClass, name)

validateLineName(name) == RegexStarTest(AlnumClass, name)

validateMachineName(name) == RegexStarTest(AlnumClass, name)

\* the validator each controller with a handleNameChange calls
ValidateName(e, name) ==
    CASE e = "company" -> validateCompanyName(name)
      [] e = "country" -> validateCountryName(name)
      [] e = "city" -> validateCityName(name)
      [] e = "district" -> validateDistrictName(name)
      [] e = "line_type" -> validateLineTypeName(name)
      [] e = "line" -> validateLineName(name)
      [] e = "machine" -> validateMachineName(name)
      [] OTHER -> TRUE

\* the message handleNameChange shows for a rejected name
NameHint(e) ==
    IF e \in {"line", "machine"}
    THEN "Only English letters (A-Z), numbers (0-9), spaces, and hyphens are allowed"
    ELSE "Only English letters (A-Z) and spaces are allowed"

\* ------------------------------------------------- the gateway: list query
\* LIKE pattern matching, case folded (ILIKE): % is any run, _ any character
RECURSIVE ILike(_, _)
ILike(s, p) ==
    IF p = <<>> THEN s = <<>>
    ELSE IF Head(p) = "%"
         THEN ILike(s, Tail(p)) \/ (s # <<>> /\ ILike(Tail(s), p))
    ELSE IF s = <<>> THEN FALSE
    ELSE /\ (Head(p) = "_" \/ ToLowerChar(Head(s)) = ToLowerChar(Head(p)))
         /\ ILike(Tail(s), Tail(p))

\* `%${term}%`
LikePattern(term) == <<"%">> \o term \o <<"%">>

\* if (term) query = query.ilike('name', `%${term}%`)
Matches(row, term) == term = <<>> \/ ILike(row.name, LikePattern(term))

\* the text collation the ORDER BY on name uses
Collation ==
    <<" ", "\t", "%", "-", "_", "0", "1", "2", "3", "4", "5", "6", "7", "8", "9">>
    \o [i \in 1..52 |-> IF i % 2 = 1 THEN LowerLetters[(i + 1) \div 2]
                                     ELSE UpperLetters[i \div 2]]

RankOf == [c \in AllChars |-> CHOOSE i \in 1..Len(Collation) : Collation[i] = c]

CharRank(c) == RankOf[c]

\* text ordering of two names
RECURSIVE SeqLeq(_, _)
SeqLeq(a, b) ==
    IF a = <<>> THEN TRUE
    ELSE IF b = <<>> THEN FALSE
    ELSE IF Head(a) = Head(b) THEN SeqLeq(Tail(a), Tail(b))
    ELSE CharRank(Head(a)) < CharRank(Head(b))

\* .order(orderBy, { ascending }): r may precede s
Precedes(r, s, col, asc) ==
    LET le(x, y) == IF col = "name" THEN SeqLeq(x.name, y.name)
                    ELSE IF col = "order" THEN x.order <= y.order
                    ELSE x.created_at <= y.created_at
    IN  IF asc THEN le(r, s) ELSE le(s, r)

\* rows the ORDER BY does not tell apart
Tied(r, s, col) ==
    IF col = "name" THEN r.name = s.name
    ELSE IF col = "order" THEN r.order = s.order
    ELSE r.created_at = s.created_at

\* one arrangement of S in the requested order
RECURSIVE InsertRow(_, _, _, _)
InsertRow(x, sq, col, asc) ==
    IF sq = <<>> THEN <<x>>
    ELSE IF Precedes(x, Head(sq), col, asc) THEN <<x>> \o sq
    ELSE <<Head(sq)>> \o InsertRow(x, Tail(sq), col, asc)

RECURSIVE SortRows(_, _, _)
SortRows(S, col, asc) ==
    IF S = {} THEN <<>>
    ELSE LET x == CHOOSE y \in S : TRUE
         IN  InsertRow(x, SortRows(S \ {x}, col, asc), col, asc)

RECURSIVE PermsOf(_)
PermsOf(S) ==
    IF S = {} THEN {<<>>}
    ELSE UNION { {<<x>> \o t : t \in PermsOf(S \ {x})} : x \in S }

\* every arrangement the ORDER BY allows: tied rows come in any order
RECURSIVE TieOrders(_, _)
TieOrders(sq, col) ==
    IF \A i \in 1..(Len(sq) - 1) : ~Tied(sq[i], sq[i + 1], col) THEN {sq}
    ELSE LET k == CHOOSE n \in 1..Len(sq) :
                      /\ \A i \in 1..n : Tied(sq[1], sq[i], col)
                      /\ (n < Len(sq) => ~Tied(sq[1], sq[n + 1], col))
         IN  IF k = 1
             THEN {<<sq[1]>> \o t : t \in TieOrders(Tail(sq), col)}
             ELSE {p \o t : p \in PermsOf({sq[i] : i \in 1..k}),
                            t \in TieOrders(SubSeq(sq, k + 1, Len(sq)), col)}

Ordered(S, col, asc) == TieOrders(SortRows(S, col, asc), col)

\* .range(from, to) over an ordered result
RangeOf(sq, from, to) == SubSeq(sq, from + 1, Min2(to + 1, Len(sq)))

\* the gateway's answers to select('*', {count:'exact'}) [.ilike] .order .range
ListResults(tbl, q) ==
    LET hit == {r \in tbl : Matches(r, q.term)}
    IN  { [data |-> RangeOf(sq, q.page * q.rowsPerPage, (q.page + 1) * q.rowsPerPage - 1),
           count |-> Cardinality(hit)] : sq \in Ordered(hit, q.orderBy, q.order = "asc") }

\* ------------------------------------------------------- rows and the form
\* which controllers have which form fields
HasParent(e) == e \in {"city", "district", "line", "machine"}

HasValidator(e) == e # "kpi"

\* the controllers whose handleSubmit runs the name pre-check query
HasPrecheck(e) == e # "machine"

\* the ids the parent selects offer
ParentIds == {"P", "Q"}

NoRow ==
    [id |-> 0, name |-> <<>>, unit |-> <<>>, order |-> 0, p1 |-> "", p2 |-> "",
     p3 |-> "", created_at |-> 0, created_by |-> NULL, updated_at |-> NULL,
     updated_by |-> NULL]

\* useState({ name: '', ... }) of each controller
FormDefaults(e) ==
    [name |-> <<>>, unit |-> <<>>,
     order |-> IF e = "machine" THEN MinOrder ELSE 0,
     p1 |-> "", p2 |-> "", p3 |-> ""]

\* setFormData({ name: row.name, ... }) of handleEdit
FormOfRow(e, r) ==
    [name |-> r.name, unit |-> r.unit, order |-> r.order,
     p1 |-> r.p1, p2 |-> r.p2, p3 |-> r.p3]

\* the rows the table holds when the page is opened
InitialRows == 16

InitialName(i) == [k \in 1..4 |-> IF ((i - 1) \div (2 ^ (4 - k))) % 2 = 0 THEN "A" ELSE "B"]

InitialTable(e) ==
    { [id |-> i, name |-> InitialName(i),
       unit |-> IF e = "kpi" THEN <<"k">> ELSE <<>>,
       order |-> IF e = "machine" THEN MinOrder + (i - 1) ELSE 0,
       p1 |-> IF HasParent(e) THEN (IF i % 2 = 1 THEN "P" ELSE "Q") ELSE "",
       p2 |-> IF e = "line" THEN "P" ELSE "",
       p3 |-> IF e = "line" THEN "P" ELSE "",
       created_at |-> i, created_by |-> "u0", updated_at |-> NULL,
       updated_by |-> NULL] : i \in 1..InitialRows }

\* what the user types or picks
SearchTerms == { <<>>, <<"a">>, <<"_">> }

NameInputs == { <<>>, <<"a", "a", "a", "a">>, <<"a", "b">>, <<"a", "-", "1">>, <<" ">> }

\* the names typed when only the name field is explored: every string of up to
\* MaxLen of these characters, and three longer ones
TypedChars == {"a", "Z", "1", "-", " ", "_"}

TypedNames ==
    UNION { [1..n -> TypedChars] : n \in 0..MaxLen }
    \cup { <<"A", "c", "m", "e">>, <<"A", "c", "m", "e", "-", "1">>,
           <<"L", "I", "N", "E", "-", "1">> }

UnitInputs == { <<>>, <<"k">> }

OrderInputs == { "999", "1002", "9999", "10000" }

\* rowsPerPageOptions={[15, 50, 100, 150, 200]}: the first two of them
RowsPerPageOptions == {15, 50}

\* the sortable column headers that are modelled (updated_at and the parent
\* columns are left out)
SortColumns(e) == {"name", "created_at"} \cup (IF e = "machine" THEN {"order"} ELSE {})

\* parseInt(value) of the order field
ParseInt(v) ==
    CASE v = "999" -> 999
      [] v = "1002" -> 1002
      [] v = "9999" -> 9999
      [] v = "10000" -> 10000
      [] OTHER -> 0

VARIABLES
    entity,            \* which of the eight controllers this is
    table,             \* the remote table
    rows,              \* countries / cities / ... : the displayed rows
    totalCount,
    loading,
    error,
    success,
    openDialog,
    editing,           \* editingCountry / ... : a row or NoRow
    formData,
    validationErrors,  \* MachineList only
    existingOrders,    \* MachineList only
    searchTerm,
    page,
    rowsPerPage,
    orderBy,
    order,
    gen,               \* identity of the current debouncedSearch instance
    timers,            \* debounced calls waiting for their timer
    inflight,          \* list queries awaiting the gateway
    flows,             \* handleSubmit invocations suspended at an await
    lookups,           \* fetchExistingOrders invocations awaiting the gateway
    issued,            \* number of list queries issued so far
    lastDone,          \* outcome of the last completed list query
    quiet,             \* ms since the last change of a query parameter
    sinceChange,       \* the queries issued for the last change
    nChanges,
    nSubmits,
    nEdits,
    budget,            \* how many changes, submits and edits are explored
    route              \* the location, the session and the state of the login page

msgVars == <<error, success>>

dialogVars == <<openDialog, editing>>

formVars == <<formData, validationErrors, existingOrders>>

paramVars == <<searchTerm, page, rowsPerPage, orderBy, order, gen>>

resultVars == <<rows, totalCount, loading, lastDone>>

queueVars == <<timers, inflight, issued>>

histVars == <<quiet, sinceChange>>

countVars == <<nChanges, nSubmits, nEdits, budget>>

listVars == <<paramVars, resultVars, queueVars, histVars>>

modalVars == <<msgVars, dialogVars, formVars, flows, lookups>>

ctrlVars == <<entity, table, listVars, modalVars, countVars>>

vars == <<ctrlVars, route>>

\* ------------------------------------------------------------ the routes
\* the path of each list page
PathOf(e) ==
    CASE e = "company" -> "/data-entry/companies"
      [] e = "country" -> "/data-entry/countries"
      [] e = "city" -> "/data-entry/cities"
      [] e = "district" -> "/data-entry/districts"
      [] e = "line_type" -> "/data-entry/line-types"
      [] e = "line" -> "/data-entry/lines"
      [] e = "machine" -> "/data-entry/machines"
      [] OTHER -> "/data-entry/kpis"

\* the children of the route '/'
ProtectedPaths == {"/", "/settings", "/data-entry"} \cup {PathOf(e) : e \in Entities}

LoginPath == "/login"

Paths == ProtectedPaths \cup {LoginPath}

\* useState of Login: authMethod, loading, error
LoginDefaults == [authMethod |-> "email", loading |-> FALSE, error |-> NULL]

\* the location, the session of the SessionContextProvider, the state of the
\* auth client, the state of the Login page and whether a sign-in is awaiting
\* the gateway
RouteOf(p, sess, auth) ==
    [path |-> p, session |-> sess, auth |-> auth, login |-> LoginDefaults,
     pending |-> FALSE]

\* a signed-in user on the list page of controller e
PageRoute(e) == RouteOf(PathOf(e), "s1", "in")

\* a wrapper that renders its children whatever the session
ProtectedRouteOpen(session, children) == children

\* ProtectedRoute: what the wrapper renders
ProtectedRoute(session, children) ==
    IF session = NULL THEN "Navigate" ELSE children

\* Login: what the page renders
Login(session) == IF session # NULL THEN "null" ELSE "form"

\* what the router renders at the location
View(r) ==
    IF r.path = LoginPath THEN Login(r.session)
    ELSE ProtectedRoute(r.session, r.path)

NoErrors == [name |-> NULL, order |-> NULL, line |-> NULL]

\* the arguments a debounced call will run with: the term passed to it and
\* the orderBy/order/page/rowsPerPage its instance closed over
Params(t, ob, o, p, rpp) ==
    [term |-> t, orderBy |-> ob, order |-> o, page |-> p, rowsPerPage |-> rpp]

CurrentParams == Params(searchTerm, orderBy, order, page, rowsPerPage)

\* useState('name') / useState('order'), useState('asc'), useState(0), useState(15)
InitialParams(e) ==
    Params(<<>>, IF e = "machine" THEN "order" ELSE "name", "asc", 0, InitialRowsPerPage)

\* if (loading && page === 0 && !searchTerm) return <spinner/>: nothing else
\* is rendered, so no control can be used
Rendered == ~(loading /\ page = 0 /\ searchTerm = <<>>)

\* the modal Dialog covers the list controls while it is open
ListUsable == Rendered /\ ~openDialog

DialogUsable == Rendered /\ openDialog

\* the useState initial values of controller e
InitialState(e) ==
    /\ entity = e
    /\ table = InitialTable(e)
    /\ error = NULL
    /\ success = NULL
    /\ editing = NoRow
    /\ formData = FormDefaults(e)
    /\ validationErrors = NoErrors
    /\ existingOrders = {}
    /\ searchTerm = <<>>
    /\ page = 0
    /\ rowsPerPage = InitialRowsPerPage
    /\ orderBy = InitialParams(e).orderBy
    /\ order = "asc"
    /\ gen = 1
    /\ inflight = {}
    /\ flows = {}
    /\ lookups = {}
    /\ quiet = 0
    /\ nChanges = 0
    /\ nSubmits = 0
    /\ nEdits = 0

\* a freshly mounted controller: the mount effect has called debouncedSearch('')
Mounted(e) ==
    /\ InitialState(e)
    /\ rows = <<>>
    /\ totalCount = 0
    /\ loading = TRUE
    /\ openDialog = FALSE
    /\ timers = { [gen |-> 1, q |-> InitialParams(e), left |-> DebounceWait,
                   byChange |-> TRUE] }
    /\ issued = 0
    /\ lastDone = "none"
    /\ sinceChange = <<>>

\* the controller on its page, with a signed-in user
Opened(e) == Mounted(e) /\ route = PageRoute(e)

Init ==
    /\ \E e \in Entities : Opened(e)
    /\ budget = [changes |-> MaxChanges, submits |-> MaxSubmits, edits |-> MaxEdits,
                 lookups |-> MaxLookups]

\* only the list is explored
InitList ==
    /\ \E e \in Entities : Opened(e)
    /\ budget = [changes |-> MaxListChanges, submits |-> 0, edits |-> 0,
                 lookups |-> MaxLookups]

\* only the modal is explored
InitSubmit ==
    /\ \E e \in Entities : Opened(e)
    /\ budget = [changes |-> 0, submits |-> MaxSubmits, edits |-> MaxSubmitEdits,
                 lookups |-> MaxLookups]

\* only opening the dialog and saving is explored
InitSave ==
    /\ \E e \in Entities : Opened(e)
    /\ budget = [changes |-> 0, submits |-> MaxSubmits, edits |-> 0,
                 lookups |-> MaxLookups]

\* only the modal of the machine controller is explored
InitMachine ==
    /\ Opened("machine")
    /\ budget = [changes |-> 0, submits |-> MaxSubmits, edits |-> MaxMachineEdits,
                 lookups |-> MaxLookups]

\* only typing into the name field is explored
InitNames ==
    /\ \E e \in Entities : Opened(e)
    /\ budget = [changes |-> 0, submits |-> 0, edits |-> MaxNameEdits,
                 lookups |-> MaxLookups]

\* ------------------------------------------------------------ the debounce
\* saturation value of quiet: "more than DebounceWait"
QuietCap == DebounceWait + TickMs

\* debouncedSearch(term) on instance g: (re)starts the instance's timer and
\* replaces the pending arguments (lodash debounce, trailing edge)
DebouncedCall(ts, g, q, fromEffect) ==
    {t \in ts : t.gen # g}
    \cup { [gen |-> g, q |-> q, left |-> DebounceWait,
            byChange |-> fromEffect \/ \E t \in ts : t.gen = g /\ t.byChange] }

\* debouncedSearch.cancel() on instance g
DebouncedCancel(ts, g) == {t \in ts : t.gen # g}

\* The re-render after a change of searchTerm/orderBy/order/page/rowsPerPage:
\* useCallback makes a new debounced instance when one of its four
\* dependencies changed, the effect cleanup cancels the instance of the
\* previous render, and the effect calls the current instance.
Rerender(np) ==
    LET depsChanged ==
            <<np.orderBy, np.order, np.page, np.rowsPerPage>>
                # <<orderBy, order, page, rowsPerPage>>
        g == IF depsChanged THEN gen + 1 ELSE gen
    IN  /\ nChanges < budget.changes
        /\ nChanges' = nChanges + 1
        /\ searchTerm' = np.term
        /\ orderBy' = np.orderBy
        /\ order' = np.order
        /\ page' = np.page
        /\ rowsPerPage' = np.rowsPerPage
        /\ gen' = g
        /\ timers' = DebouncedCall(DebouncedCancel(timers, gen), g, np, TRUE)
        /\ quiet' = 0
        /\ sinceChange' = <<>>
        /\ UNCHANGED <<route, entity, table, resultVars, inflight, issued, modalVars,
                       nSubmits, nEdits, budget>>

\* a search box that keeps the page
handleSearchChangeKeepingPage(value) ==
    /\ ListUsable
    /\ value # searchTerm
    /\ Rerender(Params(value, orderBy, order, page, rowsPerPage))

handleSearchChange(value) ==
    /\ ListUsable
    /\ value # searchTerm
    /\ Rerender(Params(value, orderBy, order, 0, rowsPerPage))

handleSort(property) ==
    LET isAsc == orderBy = property /\ order = "asc"
    IN  /\ ListUsable
        /\ Rerender(Params(searchTerm, property, IF isAsc THEN "desc" ELSE "asc",
                           0, rowsPerPage))

\* TablePagination offers the previous page and, while rows remain, the next
handleChangePage(newPage) ==
    /\ ListUsable
    /\ newPage \in {page - 1, page + 1}
    /\ newPage >= 0
    /\ newPage * rowsPerPage < totalCount
    /\ Rerender(Params(searchTerm, orderBy, order, newPage, rowsPerPage))

handleChangeRowsPerPage(value) ==
    /\ ListUsable
    /\ value # rowsPerPage
    /\ Rerender(Params(searchTerm, orderBy, order, 0, value))

\* time passes: up to TickMs, and never past the expiry of a timer
Tick ==
    LET steps == {TickMs} \cup {t.left : t \in timers}
        d == CHOOSE x \in steps : \A y \in steps : x <= y
    IN  /\ timers # {}
        /\ \A t \in timers : t.left > 0
        /\ timers' = { [t EXCEPT !.left = t.left - d] : t \in timers }
        /\ quiet' = IF \E t \in timers : t.byChange
                    THEN Min2(quiet + d, QuietCap) ELSE quiet
        /\ UNCHANGED <<route, entity, table, paramVars, resultVars, inflight, issued,
                       sinceChange, modalVars, countVars>>

\* the timer of a debounced call expires: the async body runs up to its await
\* (setLoading(true), build the query, send it)
debouncedSearch(t) ==
    /\ t \in timers
    /\ t.left = 0
    /\ timers' = timers \ {t}
    /\ loading' = TRUE
    /\ issued' = issued + 1
    /\ inflight' = inflight \cup { [seq |-> issued + 1, q |-> t.q] }
    /\ sinceChange' = IF t.byChange
                      THEN Append(sinceChange, [q |-> t.q, quiet |-> quiet])
                      ELSE sinceChange
    /\ UNCHANGED <<route, entity, table, paramVars, rows, totalCount, lastDone, quiet,
                   modalVars, countVars>>

\* a success that also clears the error message
searchResolvedClearing(r) ==
    /\ r \in inflight
    /\ inflight' = inflight \ {r}
    /\ \E res \in ListResults(table, r.q) :
           /\ rows' = res.data
           /\ totalCount' = res.count
    /\ lastDone' = "ok"
    /\ loading' = FALSE
    /\ error' = NULL
    /\ UNCHANGED <<route, entity, table, paramVars, timers, issued, histVars,
                   success, dialogVars, formVars, flows, lookups, countVars>>

\* the gateway answers a list query: setRows(data), setTotalCount(count),
\* finally setLoading(false)
searchResolved(r) ==
    /\ r \in inflight
    /\ inflight' = inflight \ {r}
    /\ \E res \in ListResults(table, r.q) :
           /\ rows' = res.data
           /\ totalCount' = res.count
    /\ lastDone' = "ok"
    /\ loading' = FALSE
    /\ UNCHANGED <<route, entity, table, paramVars, timers, issued, histVars,
                   modalVars, countVars>>

SearchFailedMsg == "Failed to search"

\* a catch that also empties the list
searchRejectedClearing(r) ==
    /\ r \in inflight
    /\ inflight' = inflight \ {r}
    /\ error' = SearchFailedMsg
    /\ rows' = <<>>
    /\ totalCount' = 0
    /\ lastDone' = "error"
    /\ loading' = FALSE
    /\ UNCHANGED <<route, entity, table, paramVars, timers, issued,
                   histVars, success, dialogVars, formVars, flows, lookups, countVars>>

\* the gateway fails a list query: catch sets the error, finally
\* setLoading(false)
searchRejected(r) ==
    /\ r \in inflight
    /\ inflight' = inflight \ {r}
    /\ error' = SearchFailedMsg
    /\ lastDone' = "error"
    /\ loading' = FALSE
    /\ UNCHANGED <<route, entity, table, paramVars, rows, totalCount, timers, issued,
                   histVars, success, dialogVars, formVars, flows, lookups, countVars>>

\* ------------------------------------------------------------ the modal
\* onClick={() => setOpenDialog(true)} of the Add button
openAdd ==
    /\ ListUsable
    /\ openDialog' = TRUE
    /\ UNCHANGED <<route, entity, table, listVars, msgVars, editing, formVars, flows,
                   lookups, countVars>>

\* fetchExistingOrders(lineId) up to its await; editingAtCall is the
\* editingMachine of the render whose closure makes the call
StartLookup(ls, lineId, editingAtCall) ==
    ls \cup { [line |-> lineId, wasEditing |-> editingAtCall # NoRow] }

\* the Edit button of a displayed row
handleEdit(row) ==
    /\ ListUsable
    /\ \E i \in 1..Len(rows) : rows[i] = row
    /\ editing' = row
    /\ formData' = FormOfRow(entity, row)
    /\ openDialog' = TRUE
    /\ error' = NULL
    /\ IF entity = "machine"
       THEN /\ Cardinality(lookups) < budget.lookups
            /\ lookups' = StartLookup(lookups, row.p1, editing)
            /\ validationErrors' = NoErrors
       ELSE UNCHANGED <<lookups, validationErrors>>
    /\ UNCHANGED <<route, entity, table, listVars, success, existingOrders, flows, countVars>>

\* the state updates of handleCloseDialog
CloseDialog ==
    /\ openDialog' = FALSE
    /\ editing' = NoRow
    /\ formData' = FormDefaults(entity)
    /\ error' = NULL
    /\ IF entity = "machine"
       THEN existingOrders' = {} /\ validationErrors' = NoErrors
       ELSE UNCHANGED <<existingOrders, validationErrors>>

\* Cancel, Escape or a click on the backdrop
handleCloseDialog ==
    /\ DialogUsable
    /\ CloseDialog
    /\ UNCHANGED <<route, entity, table, listVars, success, flows, lookups, countVars>>

\* an edit of a form field
FormEdit ==
    /\ DialogUsable
    /\ nEdits < budget.edits
    /\ nEdits' = nEdits + 1
    /\ UNCHANGED <<route, entity, table, listVars, success, dialogVars, flows,
                   nChanges, nSubmits, budget>>

\* handleNameChange; the KPI name field stores the raw value
handleNameChange(value) ==
    LET upperValue == ToUpperCase(value)
        hint == IF ValidateName(entity, upperValue) THEN NULL ELSE NameHint(entity)
    IN  /\ FormEdit
        /\ formData' = [formData EXCEPT
                           !.name = IF HasValidator(entity) THEN upperValue ELSE value]
        /\ error' = IF HasValidator(entity) /\ entity # "machine" THEN hint ELSE error
        /\ validationErrors' = IF entity = "machine"
                               THEN [validationErrors EXCEPT !.name = hint]
                               ELSE validationErrors
        /\ UNCHANGED <<existingOrders, lookups>>

\* the unit field of the KPI form
handleUnitChange(value) ==
    /\ entity = "kpi"
    /\ FormEdit
    /\ formData' = [formData EXCEPT !.unit = value]
    /\ UNCHANGED <<error, validationErrors, existingOrders, lookups>>

\* the parent selects of each form: country_id; city_id; company_id,
\* district_id, line_type_id; line_id
ParentFields(e) ==
    CASE e \in {"city", "district", "machine"} -> {"p1"}
      [] e = "line" -> {"p1", "p2", "p3"}
      [] OTHER -> {}

\* the parent selects of City, District and Line
handleParentChange(field, value) ==
    /\ entity \in {"city", "district", "line"}
    /\ field \in ParentFields(entity)
    /\ FormEdit
    /\ formData' = [formData EXCEPT ![field] = value]
    /\ UNCHANGED <<error, validationErrors, existingOrders, lookups>>

handleLineChange(lineId) ==
    /\ entity = "machine"
    /\ FormEdit
    /\ Cardinality(lookups) < budget.lookups
    /\ formData' = [formData EXCEPT !.p1 = lineId]
    /\ validationErrors' = [validationErrors EXCEPT !.line = NULL]
    /\ lookups' = StartLookup(lookups, lineId, editing)
    /\ UNCHANGED <<error, existingOrders>>

OrderRangeMsg == "Order must be a 4-digit number (1000-9999)"

OrderUsedMsg == "This order number is already used in the selected production line"

\* the order check shared by handleOrderChange and validateForm
OrderError(n, orders, edited) ==
    IF n < MinOrder \/ n > MaxOrder THEN OrderRangeMsg
    ELSE IF n \in orders /\ (edited = NoRow \/ n # edited.order) THEN OrderUsedMsg
    ELSE NULL

handleOrderChange(value) ==
    LET numValue == IF ParseInt(value) = 0 THEN MinOrder ELSE ParseInt(value)
    IN  /\ entity = "machine"
        /\ FormEdit
        /\ formData' = [formData EXCEPT !.order = numValue]
        /\ validationErrors' =
               [validationErrors EXCEPT !.order = OrderError(numValue, existingOrders, editing)]
        /\ UNCHANGED <<error, existingOrders, lookups>>

\* the order after the largest one in orders
NextOrderAfterLast(orders) ==
    IF orders = {} THEN MinOrder
    ELSE 1 + CHOOSE n \in orders : \A m \in orders : m <= n

\* the least order from MinOrder on that is not in orders
NextOrder(orders) ==
    CHOOSE n \in MinOrder..(MinOrder + Cardinality(orders)) :
        /\ n \notin orders
        /\ \A m \in MinOrder..(n - 1) : m \in orders

\* the gateway answers fetchExistingOrders
ordersResolved(l) ==
    LET orders == {r.order : r \in {x \in table : x.p1 = l.line}}
    IN  /\ l \in lookups
        /\ lookups' = lookups \ {l}
        /\ existingOrders' = orders
        /\ formData' = IF l.wasEditing THEN formData
                       ELSE [formData EXCEPT !.order = NextOrder(orders)]
        /\ UNCHANGED <<route, entity, table, listVars, msgVars, dialogVars,
                       validationErrors, flows, countVars>>

\* the gateway fails fetchExistingOrders: logged, nothing changes
ordersRejected(l) ==
    /\ l \in lookups
    /\ lookups' = lookups \ {l}
    /\ UNCHANGED <<route, entity, table, listVars, msgVars, dialogVars, formVars,
                   flows, countVars>>

\* ------------------------------------------------------------ the save
LoginMsg == "You must be logged in to perform this action"

SaveFailedMsg == "Failed to save. Please try again."

DuplicateMsg == "A record with this name already exists"

\* a submit that does not look at the session
AuthenticatedAlways(u) == TRUE

\* if (!user)
Authenticated(u) == u # NULL

\* validateForm of MachineList: the errors it stores
validateForm(form, orders, edited) ==
    [line |-> IF form.p1 = "" THEN "Please select a production line" ELSE NULL,
     name |-> IF Trim(form.name) = <<>> THEN "Machine name is required"
              ELSE IF ~validateMachineName(form.name) THEN NameHint("machine")
              ELSE NULL,
     order |-> OrderError(form.order, orders, edited)]

\* a handleSubmit that makes no check of the form before its first await
LocalErrorNone(e, form) == NULL

\* the checks handleSubmit makes before its first await, in the other
\* controllers: the error they set, or NULL
LocalError(e, form) ==
    CASE e = "kpi" ->
            IF Trim(form.name) = <<>> \/ Trim(form.unit) = <<>>
            THEN "Name and unit are required" ELSE NULL
      [] e \in {"company", "country", "line_type"} ->
            IF ~ValidateName(e, form.name) THEN "Invalid name format" ELSE NULL
      [] e \in {"city", "district"} ->
            IF ~ValidateName(e, form.name) THEN "Invalid name format"
            ELSE IF form.p1 = "" THEN "Please select a parent"
            ELSE NULL
      [] e = "line" ->
            IF ~ValidateName(e, form.name) THEN "Invalid name format"
            ELSE IF form.p1 = "" \/ form.p2 = "" \/ form.p3 = ""
                 THEN "All fields are required"
            ELSE NULL
      [] OTHER -> NULL

\* what an invocation of handleSubmit holds while it is suspended: the user,
\* form, editing record, search term and debouncedSearch of the render in which
\* Submit was clicked
NewFlow(u, firstAwait) ==
    [n |-> nSubmits + 1, pc |-> firstAwait, user |-> u,
     name |-> Trim(formData.name),
     unit |-> IF entity = "kpi" THEN Trim(formData.unit) ELSE formData.unit,
     order |-> formData.order,
     p1 |-> formData.p1, p2 |-> formData.p2, p3 |-> formData.p3,
     editId |-> editing.id, gen |-> gen, q |-> CurrentParams]

\* a click on the Submit button: handleSubmit up to its first await
handleSubmit(u) ==
    LET errs == validateForm(formData, existingOrders, editing)
        local == LocalError(entity, formData)
    IN  /\ DialogUsable
        /\ nSubmits < budget.submits
        /\ nSubmits' = nSubmits + 1
        /\ IF ~Authenticated(u)
           THEN /\ error' = LoginMsg
                /\ UNCHANGED <<validationErrors, flows>>
           ELSE IF entity = "machine"
           THEN /\ validationErrors' = errs
                /\ flows' = IF errs = NoErrors
                            THEN flows \cup {NewFlow(u, "write")} ELSE flows
                /\ UNCHANGED error
           ELSE IF local # NULL
           THEN /\ error' = local
                /\ UNCHANGED <<validationErrors, flows>>
           ELSE /\ flows' = flows \cup {NewFlow(u, "precheck")}
                /\ UNCHANGED <<error, validationErrors>>
        /\ UNCHANGED <<route, entity, table, listVars, success, dialogVars, formData,
                       existingOrders, lookups, nChanges, nEdits, budget>>

\* the .eq() filters of the pre-check besides the name: country_id; city_id;
\* company_id and district_id
SameScope(e, r, f) ==
    CASE e \in {"city", "district"} -> r.p1 = f.p1
      [] e = "line" -> r.p1 = f.p1 /\ r.p2 = f.p2
      [] OTHER -> TRUE

\* a pre-check without the .neq('id', editing.id) filter
PrecheckRowsAll(tbl, e, f) ==
    {r \in tbl : r.name = f.name /\ SameScope(e, r, f)}

\* the rows the pre-check query selects
PrecheckRows(tbl, e, f) ==
    {r \in tbl : r.name = f.name /\ SameScope(e, r, f) /\ (f.editId = 0 \/ r.id # f.editId)}

\* a pre-check whose error ends the submit with a message
precheckResolvedBlocking(f, found) ==
    /\ f \in flows
    /\ f.pc = "precheck"
    /\ found => Cardinality(PrecheckRows(table, entity, f)) = 1
    /\ IF found
       THEN /\ error' = DuplicateMsg
            /\ flows' = flows \ {f}
       ELSE IF PrecheckRows(table, entity, f) # {}
       THEN /\ error' = SaveFailedMsg
            /\ flows' = flows \ {f}
       ELSE /\ flows' = (flows \ {f}) \cup {[f EXCEPT !.pc = "write"]}
            /\ UNCHANGED error
    /\ UNCHANGED <<route, entity, table, listVars, success, dialogVars, formVars,
                   lookups, countVars>>

\* the pre-check returns; maybeSingle() gives a row only when exactly one row
\* matches and the query did not fail, and its error is not looked at
precheckResolved(f, found) ==
    /\ f \in flows
    /\ f.pc = "precheck"
    /\ found => Cardinality(PrecheckRows(table, entity, f)) = 1
    /\ IF found
       THEN /\ error' = DuplicateMsg
            /\ flows' = flows \ {f}
       ELSE /\ flows' = (flows \ {f}) \cup {[f EXCEPT !.pc = "write"]}
            /\ UNCHANGED error
    /\ UNCHANGED <<route, entity, table, listVars, success, dialogVars, formVars,
                   lookups, countVars>>

\* machine_line_order_unique: another machine of the line has the order
OrderTaken(tbl, f) ==
    \E r \in tbl : r.p1 = f.p1 /\ r.order = f.order /\ r.id # f.editId

\* what the gateway may answer to the insert or update of f
WriteOutcomes(e, tbl, f) ==
    IF e = "machine" /\ OrderTaken(tbl, f)
    THEN {"machine_line_order_unique", "error"}
    ELSE {"ok", "error"}

\* .insert([{ name, ..., created_by: user.id }])
InsertRowOf(tbl, f) ==
    LET ids == {r.id : r \in tbl}
        top == CHOOSE i \in ids \cup {0} : \A j \in ids : j <= i
    IN  tbl \cup { [id |-> top + 1, name |-> f.name, unit |-> f.unit,
                    order |-> f.order, p1 |-> f.p1, p2 |-> f.p2, p3 |-> f.p3,
                    created_at |-> top + 1, created_by |-> f.user,
                    updated_at |-> NULL, updated_by |-> NULL] }

\* a write that removes the edited record
UpdateRowsDeleting(tbl, f) == {r \in tbl : r.id # f.editId}

\* .update({ name, ..., updated_by: user.id }).eq('id', editing.id)
UpdateRows(tbl, f) ==
    { IF r.id = f.editId
      THEN [r EXCEPT !.name = f.name, !.unit = f.unit, !.order = f.order,
                     !.p1 = f.p1, !.p2 = f.p2, !.p3 = f.p3, !.updated_by = f.user]
      ELSE r : r \in tbl }

\* the insert or update succeeded: setSuccess, handleCloseDialog(),
\* debouncedSearch(searchTerm) of the render in which Submit was clicked
writeSucceeded(f) ==
    /\ table' = IF f.editId = 0 THEN InsertRowOf(table, f) ELSE UpdateRows(table, f)
    /\ success' = IF f.editId = 0 THEN "added successfully" ELSE "updated successfully"
    /\ CloseDialog
    /\ timers' = DebouncedCall(timers, f.gen, f.q, FALSE)
    /\ UNCHANGED <<paramVars, resultVars, inflight, issued, histVars>>

\* a handler that throws the order violation like any other error
writeOrderViolationThrown(f) ==
    /\ error' = SaveFailedMsg
    /\ UNCHANGED <<table, listVars, success, dialogVars, formVars>>

\* code 23505 on machine_line_order_unique: the order error is shown and
\* handleSubmit returns
writeOrderViolation(f) ==
    /\ validationErrors' = [validationErrors EXCEPT !.order = OrderUsedMsg]
    /\ UNCHANGED <<table, listVars, msgVars, dialogVars, formData, existingOrders>>

\* a catch block that also closes the dialog
writeFailedClosing(f) ==
    /\ error' = SaveFailedMsg
    /\ openDialog' = FALSE
    /\ UNCHANGED <<table, listVars, success, editing, formVars>>

\* any other error is thrown and caught
writeFailed(f) ==
    /\ error' = SaveFailedMsg
    /\ UNCHANGED <<table, listVars, success, dialogVars, formVars>>

\* the insert or update returns
writeResolved(f, outcome) ==
    /\ f \in flows
    /\ f.pc = "write"
    /\ outcome \in WriteOutcomes(entity, table, f)
    /\ flows' = flows \ {f}
    /\ CASE outcome = "ok" -> writeSucceeded(f)
         [] outcome = "machine_line_order_unique" -> writeOrderViolation(f)
         [] OTHER -> writeFailed(f)
    /\ UNCHANGED <<route, entity, lookups, countVars>>

\* ------------------------------------------------------------ the steps
Users == {"u1", NULL}

NextBackground ==
    \/ Tick
    \/ \E t \in timers : debouncedSearch(t)
    \/ \E r \in inflight : searchResolved(r)
    \/ \E r \in inflight : searchRejected(r)

NextChanges ==
    \/ \E value \in SearchTerms : handleSearchChange(value)
    \/ \E property \in SortColumns(entity) : handleSort(property)
    \/ \E newPage \in {page - 1, page + 1} : handleChangePage(newPage)
    \/ \E value \in RowsPerPageOptions : handleChangeRowsPerPage(value)

NextDialog ==
    \/ openAdd
    \/ \E i \in 1..Min2(MaxEditRow, Len(rows)) : handleEdit(rows[i])
    \/ handleCloseDialog

NextForm ==
    \/ \E value \in NameInputs : handleNameChange(value)
    \/ \E value \in UnitInputs : handleUnitChange(value)
    \/ \E field \in {"p1", "p2", "p3"}, value \in ParentIds : handleParentChange(field, value)
    \/ \E lineId \in ParentIds : handleLineChange(lineId)
    \/ \E value \in OrderInputs : handleOrderChange(value)

NextClick == \E u \in Users : handleSubmit(u)

NextGateway ==
    \/ \E l \in lookups : ordersResolved(l)
    \/ \E l \in lookups : ordersRejected(l)
    \/ \E f \in flows, found \in BOOLEAN : precheckResolved(f, found)
    \/ \E f \in flows, outcome \in {"ok", "error", "machine_line_order_unique"} :
           writeResolved(f, outcome)

NextList == NextBackground \/ NextChanges

NextSave == NextBackground \/ NextDialog \/ NextClick \/ NextGateway

NextSubmit == NextSave \/ NextForm

NextNames ==
    \/ NextBackground
    \/ NextDialog
    \/ \E value \in TypedNames : handleNameChange(value)

Next == NextList \/ NextSubmit

\* the list alone
SpecList == InitList /\ [][NextList]_vars

\* the modal alone
SpecSubmit == InitSubmit /\ [][NextSubmit]_vars

\* typing names into the modal
SpecNames == InitNames /\ [][NextNames]_vars

\* the whole controller
Spec == Init /\ [][Next]_vars

\* saving the form as it opens
SpecSave == InitSave /\ [][NextSave]_vars

\* saving the form as it opens, with the timers and the gateway eventually
\* acting and the user free to do nothing
SpecSaveFair ==
    /\ InitSave /\ [][NextSave]_vars
    /\ WF_vars(Tick)
    /\ WF_vars(\E t \in timers : debouncedSearch(t))
    /\ WF_vars(\E r \in inflight : searchRejected(r) \/ searchResolved(r))
    /\ WF_vars(NextGateway)

\* the form fields of the machine modal
NextMachineForm ==
    \/ \E value \in NameInputs : handleNameChange(value)
    \/ \E lineId \in ParentIds : handleLineChange(lineId)
    \/ \E value \in OrderInputs : handleOrderChange(value)

\* the gateway calls of the machine modal
NextMachineGateway ==
    \/ \E l \in lookups : ordersResolved(l)
    \/ \E l \in lookups : ordersRejected(l)
    \/ \E f \in flows, outcome \in {"ok", "error", "machine_line_order_unique"} :
           writeResolved(f, outcome)

NextMachine ==
    NextBackground \/ NextDialog \/ NextClick \/ NextMachineForm \/ NextMachineGateway

\* the modal of the machine controller alone
SpecMachine == InitMachine /\ [][NextMachine]_vars

\* ------------------------------------------------------------ the properties
\* name contains term as a substring, letter case ignored
ContainsCI(name, term) ==
    \E i \in 0..(Len(name) - Len(term)) :
        \A k \in 1..Len(term) : ToLowerChar(name[i + k]) = ToLowerChar(term[k])

\* pg is non-decreasing (asc) or non-increasing (desc) by column col
SortedBy(pg, col, asc) ==
    \A i, j \in 1..Len(pg) : i < j => Precedes(pg[i], pg[j], col, asc)

\* C1: when the response of a list query is applied to the rows and the total
\* count, no later list query has been issued: a query that was still awaiting
\* the gateway when a later one was issued never updates the table.
C1_StaleResponseNeverApplied ==
    [][\A r \in inflight : searchResolved(r) => r.seq = issued]_vars

\* C2: the changes of the query parameters that follow each other by less
\* than the debounce wait issue exactly one list query, after the last change
\* and carrying the final values of the five parameters: at most one query is
\* issued for the last change, it was issued no sooner than DebounceWait after
\* it and with the current parameters, and once no debounced call of a change
\* is pending that query has been issued.
C2_OneQueryPerBurst ==
    /\ Len(sinceChange) <= 1
    /\ \A i \in 1..Len(sinceChange) :
           /\ sinceChange[i].quiet >= DebounceWait
           /\ sinceChange[i].q = CurrentParams
    /\ (\A t \in timers : ~t.byChange) => Len(sinceChange) = 1

\* C3: a list query that completes successfully stores the window
\* [page*rowsPerPage, (page+1)*rowsPerPage-1] of the rows whose name contains
\* the term (all rows for the empty term) in the order of the sort column, and
\* the number of those rows as the total count, for the values the query was
\* issued with.
C3_QuerySemantics ==
    [][\A r \in inflight : searchResolved(r) =>
          LET matching == {x \in table : r.q.term = <<>> \/ ContainsCI(x.name, r.q.term)}
              from == r.q.page * r.q.rowsPerPage
              to == from + r.q.rowsPerPage - 1
          IN  /\ totalCount' = Cardinality(matching)
              /\ \E sq \in Ordered(matching, r.q.orderBy, r.q.order = "asc") :
                     rows' = RangeOf(sq, from, to)]_vars

\* C4: when no debounced call is pending, no list query is in flight and the
\* last completed query succeeded, every displayed name contains the current
\* search term, letter case ignored, and the displayed rows are in the order
\* of the current sort column and direction.
C4_SettledRowsMatch ==
    (timers = {} /\ inflight = {} /\ lastDone = "ok") =>
        /\ \A i \in 1..Len(rows) : ContainsCI(rows[i].name, searchTerm)
        /\ SortedBy(rows, orderBy, order = "asc")

\* C5: when the insert or update succeeds the dialog is closed, the editing
\* record is cleared, the form is back at its defaults, the error is cleared,
\* the success message is set, and a list query with the current search term,
\* sort and page is on its way.
C5_SuccessClosesAndRefreshes ==
    [][\A f \in flows : writeResolved(f, "ok") =>
          /\ openDialog' = FALSE
          /\ editing' = NoRow
          /\ formData' = FormDefaults(entity)
          /\ error' = NULL
          /\ success' # NULL
          /\ \E t \in timers' : t.left = DebounceWait /\ t.q = CurrentParams']_vars

\* C6: a success message that is set is eventually cleared, with no further
\* user action needed.
C6_SuccessTransient == (success # NULL) ~> (success = NULL)

\* C7: when the insert or update returns an error other than the recognised
\* order-uniqueness violation, the generic save error is set, the dialog, the
\* editing record and the form fields stay as they are, no success message is
\* set and no refresh is issued.
C7_SaveFailureKeepsModal ==
    [][\A f \in flows : writeResolved(f, "error") =>
          /\ error' = SaveFailedMsg
          /\ openDialog' = openDialog
          /\ editing' = editing
          /\ formData' = formData
          /\ success' = success
          /\ timers' = timers
          /\ inflight' = inflight
          /\ issued' = issued]_vars

\* a failed save: the error is shown over the open dialog and the typed name
C7_Witness ==
    /\ error = SaveFailedMsg
    /\ openDialog
    /\ formData.name # <<>>
    /\ success = NULL
    /\ nSubmits = 1
    /\ flows = {}

\* C8: a submit without an authenticated user sets the login error and makes
\* no backend call (no pre-check, no insert, no update, no other query), and
\* leaves the dialog, the editing record and the form as they are.
C8_NoUserNoBackendCall ==
    [][handleSubmit(NULL) =>
          /\ error' = LoginMsg
          /\ flows' = flows
          /\ lookups' = lookups
          /\ inflight' = inflight
          /\ timers' = timers
          /\ table' = table
          /\ openDialog' = openDialog
          /\ editing' = editing
          /\ formData' = formData]_vars

\* a submit without a user, after a name was typed
C8_Witness ==
    /\ error = LoginMsg
    /\ openDialog
    /\ formData.name # <<>>
    /\ nSubmits = 1
    /\ flows = {}

\* the characters a name of controller e may be made of
NameAlphabet(e) ==
    IF e \in {"line", "machine"}
    THEN Range(UpperLetters) \cup Digits \cup Whitespace \cup {"-"}
    ELSE Range(UpperLetters) \cup Whitespace

\* the name field shows no validation error
NameAccepted ==
    IF entity = "machine" THEN validationErrors.name = NULL ELSE error = NULL

\* C9: a name typed into the Company, Country, City, District, LineType, Line
\* or Machine form is stored upper-cased, and it is accepted iff the
\* upper-cased name is made of A-Z and whitespace only (for Line and Machine:
\* A-Z, 0-9, whitespace and hyphen).
C9_NameValidators ==
    [][\A value \in TypedNames : (entity # "kpi" /\ handleNameChange(value)) =>
          /\ formData'.name = ToUpperCase(value)
          /\ NameAccepted' <=>
                 \A i \in 1..Len(value) : ToUpperChar(value[i]) \in NameAlphabet(entity)]_vars

\* 'Acme-1' typed as a company name: stored as 'ACME-1' and rejected
C9_Witness ==
    /\ entity = "company"
    /\ openDialog
    /\ formData.name = <<"A", "C", "M", "E", "-", "1">>
    /\ error = NameHint("company")

\* C10: no insert or update is sent with an empty name: a submit with an empty
\* name is rejected before anything is written.
C10_EmptyNameNeverSent ==
    \A f \in flows : f.pc = "write" => f.name # <<>>

\* C11: every name that an insert or update carries is upper-case only and
\* made of the characters the controller's form allows (for KPI, which has no
\* validator: upper-case only).
C11_SentNamesUppercase ==
    \A f \in flows : f.pc = "write" =>
        \A i \in 1..Len(f.name) :
            /\ ToUpperChar(f.name[i]) = f.name[i]
            /\ HasValidator(entity) => f.name[i] \in NameAlphabet(entity)

\* the parent scope within which a name is to be unique: the line of a
\* machine, and the scope of the pre-check for the other controllers
NameScope(e, r, f) == IF e = "machine" THEN r.p1 = f.p1 ELSE SameScope(e, r, f)

\* the records other than the edited one that have the name of f in its scope
NameConflicts(tbl, e, f) ==
    {r \in tbl : r.name = f.name /\ NameScope(e, r, f) /\ r.id # f.editId}

\* C12: no insert or update is sent for a submit whose trimmed name is the
\* name of another record of the same parent scope (of any other record, for
\* the controllers without a parent): such a submit is rejected locally.
C12_DuplicateNeverSent ==
    \A f \in flows : f.pc = "write" => NameConflicts(table, entity, f) = {}

\* C13: no insert or update of a machine is sent with an order outside
\* MinOrder..MaxOrder or with an order that another machine of the form's
\* line already has: such a submit is rejected before anything is sent.
C13_OrderCheckedBeforeSend ==
    \A f \in flows : (entity = "machine" /\ f.pc = "write") =>
        /\ f.order \in MinOrder..MaxOrder
        /\ ~OrderTaken(table, f)

\* C14: when the insert or update of a machine is rejected with the violation
\* of machine_line_order_unique, the order field gets the order-already-used
\* error, the dialog, the editing record and the form values stay as they are,
\* the error banner and the success message are not set, and no refresh is
\* issued.
C14_OrderViolationIsFieldError ==
    [][\A f \in flows : writeResolved(f, "machine_line_order_unique") =>
          /\ validationErrors'.order = OrderUsedMsg
          /\ error' = error
          /\ success' = success
          /\ openDialog' = openDialog
          /\ editing' = editing
          /\ formData' = formData
          /\ timers' = timers
          /\ inflight' = inflight
          /\ issued' = issued]_vars

\* the gateway has rejected the order of the open machine form, which the
\* local check had let through: the field error is shown, no banner
C14_Witness ==
    /\ entity = "machine"
    /\ openDialog
    /\ nSubmits = 1
    /\ flows = {}
    /\ table = InitialTable("machine")
    /\ validationErrors.order = OrderUsedMsg
    /\ formData.order \notin existingOrders
    /\ \E r \in table : r.p1 = formData.p1 /\ r.order = formData.order /\ r.id # editing.id
    /\ error = NULL
    /\ success = NULL

\* the form has a local validation error: a character of the name is outside
\* the controller's alphabet, or a required parent or the KPI unit is missing
LocallyInvalid ==
    \/ HasValidator(entity)
         /\ \E i \in 1..Len(formData.name) : formData.name[i] \notin NameAlphabet(entity)
    \/ \E field \in ParentFields(entity) : formData[field] = ""
    \/ entity = "kpi" /\ Trim(formData.unit) = <<>>

\* C15: a submit by a logged-in user of a form with a local validation error
\* reports an error and issues no backend call (no pre-check, insert, update,
\* lookup or list query), and leaves the dialog open and the editing record
\* and the form values as they are.
C15_LocalErrorNoBackendCall ==
    [][(LocallyInvalid /\ handleSubmit("u1")) =>
          /\ error' # NULL \/ validationErrors' # NoErrors
          /\ flows' = flows
          /\ lookups' = lookups
          /\ inflight' = inflight
          /\ timers' = timers
          /\ table' = table
          /\ openDialog'
          /\ editing' = editing
          /\ formData' = formData]_vars

\* 'A-1' submitted as a company name: rejected, the dialog still shows it
C15_Witness ==
    /\ entity = "company"
    /\ openDialog
    /\ nSubmits = 1
    /\ flows = {}
    /\ formData.name = <<"A", "-", "1">>
    /\ error = "Invalid name format"
    /\ table = InitialTable("company")

\* C16: with no field of the form touched since Edit was clicked on a row,
\* the open dialog holds exactly that row's values once no lookup started by
\* the edit is awaiting the gateway; for a machine, the form's order is the
\* edited machine's order.
C16_EditFormHoldsRow ==
    (openDialog /\ editing # NoRow /\ lookups = {} /\ nEdits = 0) =>
        formData = FormOfRow(entity, editing)

\* two rows of the table have the same name in the same parent scope
DuplicateRows(tbl, e) ==
    \E r, s \in tbl : r.id # s.id /\ r.name = s.name /\ NameScope(e, r, s)

\* the gateway with the uniqueness constraint on the name: a write that would
\* give two rows of a scope the same name is never answered with success
writeResolvedUnique(f, outcome) ==
    /\ writeResolved(f, outcome)
    /\ outcome = "ok" => NameConflicts(table, entity, f) = {}

\* two submits of one form are explored
InitRace ==
    /\ \E e \in Entities : Opened(e)
    /\ budget = [changes |-> 0, submits |-> MaxRaceSubmits, edits |-> MaxRaceEdits,
                 lookups |-> MaxLookups]

NextRace ==
    \/ NextBackground
    \/ NextDialog
    \/ NextClick
    \/ \E value \in NameInputs : handleNameChange(value)
    \/ \E l \in lookups : ordersResolved(l)
    \/ \E l \in lookups : ordersRejected(l)
    \/ \E f \in flows, found \in BOOLEAN : precheckResolved(f, found)
    \/ \E f \in flows, outcome \in {"ok", "error", "machine_line_order_unique"} :
           writeResolvedUnique(f, outcome)

\* submitting a form twice, against a gateway that enforces unique names
SpecRace == InitRace /\ [][NextRace]_vars

\* C17: with the gateway enforcing the uniqueness of names, the table never
\* holds two rows with the same name in the same scope, and when the gateway
\* rejects the write of a submit of a non-empty name because another submit
\* has meanwhile written a row with that name in its scope, the failure message is shown and the
\* dialog is open and holds the values the submit was made with.
C17_RejectedFlowKeepsModal ==
    /\ [][~DuplicateRows(table, entity) => ~DuplicateRows(table', entity)]_vars
    /\ [][\A f \in flows :
             (/\ f.name # <<>>
              /\ NameConflicts(table, entity, f) \ InitialTable(entity) # {}
              /\ writeResolvedUnique(f, "error")) =>
                 /\ error' = SaveFailedMsg
                 /\ openDialog'
                 /\ Trim(formData'.name) = f.name
                 /\ formData'.p1 = f.p1]_vars

\* C18: loading is TRUE in every state in which a list query is awaiting the
\* gateway.
C18_LoadingWhileInFlight == inflight # {} => loading

\* the submit f is an edit that leaves the name and the parent scope of its
\* record as they are in the table, and no other record of the scope has
\* the name
UnchangedEdit(tbl, e, f) ==
    /\ \E r \in tbl : r.id = f.editId /\ r.name = f.name /\ SameScope(e, r, f)
    /\ \A r \in tbl : (r.name = f.name /\ SameScope(e, r, f)) => r.id = f.editId

\* C19: the pre-check of an edit submitted with name and parent scope
\* unchanged does not find the edited record itself: it reports no duplicate
\* and the submit goes on to send the update; the pre-check of an add that
\* reports a duplicate has found a record with the name in the scope, whatever
\* its id.
C19_PrecheckExcludesOwnId ==
    [][\A f \in flows, found \in BOOLEAN : precheckResolved(f, found) =>
          /\ (f.editId # 0 /\ UnchangedEdit(table, entity, f)) =>
                 /\ ~found
                 /\ error' = error
                 /\ [f EXCEPT !.pc = "write"] \in flows'
          /\ (f.editId = 0 /\ found) =>
                 \E r \in table : r.name = f.name /\ SameScope(entity, r, f)]_vars

\* an edit submitted unchanged has passed the pre-check and is at its update
C19_Witness ==
    /\ HasPrecheck(entity)
    /\ error = NULL
    /\ \E f \in flows :
           /\ f.pc = "write"
           /\ f.editId # 0
           /\ UnchangedEdit(table, entity, f)

\* C20: a successful insert adds one row, created by the acting user, and
\* changes no other row; a successful update changes no row but the edited
\* one, whose updated_by becomes the acting user and whose updated_at is set,
\* while its id, created_by and created_at stay as they were.
C20_AuditFields ==
    [][\A f \in flows : writeResolved(f, "ok") =>
          IF f.editId = 0
          THEN /\ table \subseteq table'
               /\ Cardinality(table') = Cardinality(table) + 1
               /\ \A r \in table' \ table : r.created_by = f.user
          ELSE /\ Cardinality(table') = Cardinality(table)
               /\ \A r \in table : r.id # f.editId => r \in table'
               /\ \A r \in table : r.id = f.editId =>
                      \E s \in table' :
                          /\ s.id = r.id
                          /\ s.created_by = r.created_by
                          /\ s.created_at = r.created_at
                          /\ s.updated_by = f.user
                          /\ s.updated_at # NULL]_vars

\* the ids of the rows of tbl
IdsOf(tbl) == {r.id : r \in tbl}

\* C21: no step removes a row id from the table, and every step that changes
\* the table is the insert of one row with a new id or the update of the one
\* row whose id the submit was made for.
C21_NeverDeletes ==
    [][/\ IdsOf(table) \subseteq IdsOf(table')
       /\ table' # table =>
              \E f \in flows :
                  /\ f.pc = "write"
                  /\ IF f.editId = 0
                     THEN /\ table \subseteq table'
                          /\ Cardinality(IdsOf(table') \ IdsOf(table)) = 1
                          /\ Cardinality(table') = Cardinality(table) + 1
                     ELSE /\ IdsOf(table') = IdsOf(table)
                          /\ Cardinality(table') = Cardinality(table)
                          /\ \A r \in table : r.id # f.editId => r \in table']_vars

\* a record has been updated and every record is still there
C21_Witness ==
    /\ success = "updated successfully"
    /\ IdsOf(table) = 1..InitialRows
    /\ \E r \in table : r.updated_by = "u1"

\* the debounced call of the current instance is for page 0 and carries the
\* new values of the five parameters
QueuedForPageZero ==
    /\ page' = 0
    /\ \E t \in timers' : t.gen = gen' /\ t.q = CurrentParams' /\ t.q.page = 0

\* C22: a change of the search term, a click on a sort header and a change of
\* the page size set page to 0 in the same step, and the query they queue is
\* for page 0; a change of the page changes nothing but the page.
C22_PageResetOnChange ==
    [][/\ \A value \in SearchTerms : handleSearchChange(value) =>
              QueuedForPageZero /\ searchTerm' = value
       /\ \A property \in SortColumns(entity) : handleSort(property) =>
              QueuedForPageZero /\ orderBy' = property
       /\ \A value \in RowsPerPageOptions : handleChangeRowsPerPage(value) =>
              QueuedForPageZero /\ rowsPerPage' = value
       /\ \A newPage \in {page - 1, page + 1} : handleChangePage(newPage) =>
              /\ page' = newPage
              /\ <<searchTerm, orderBy, order, rowsPerPage>>'
                     = <<searchTerm, orderBy, order, rowsPerPage>>]_vars

\* on page 1 a search term was typed: the page is 0 again
C22_Witness ==
    /\ nChanges = 2
    /\ gen = 3
    /\ page = 0
    /\ searchTerm = <<"a">>
    /\ rowsPerPage = InitialRowsPerPage
    /\ <<orderBy, order>> = <<InitialParams(entity).orderBy, "asc">>

\* the orders the machines of a line have
OrdersOfLine(tbl, lineId) == {r.order : r \in {x \in tbl : x.p1 = lineId}}

\* n is the smallest integer from MinOrder on that no machine of the line has
LeastFreeOrder(tbl, lineId, n) ==
    /\ n >= MinOrder
    /\ n \notin OrdersOfLine(tbl, lineId)
    /\ \A m \in MinOrder..(n - 1) : m \in OrdersOfLine(tbl, lineId)

C23_EditWitness ==
    /\ entity = "machine"
    /\ openDialog
    /\ editing # NoRow
    /\ lookups = {}
    /\ formData.p1 = "Q"
    /\ existingOrders = OrdersOfLine(InitialTable("machine"), "Q")
    /\ formData.order = editing.order

\* ------------------------------------------------------- router and login
\* the messages of the login page
SignInFailedMsg == "Invalid login credentials"

MicrosoftMsg == "Microsoft Entra ID login is not configured yet"

LdapMsg == "LDAP authentication is not configured yet"

AuthMethods == {"email", "microsoft", "ldap"}

\* the session the auth client holds
SessionOf(auth) == IF auth = "in" THEN "s1" ELSE NULL

\* the route after a navigation to p: a Login page that unmounts loses its
\* state
Navigated(r, p) ==
    [r EXCEPT !.path = p,
              !.login = IF p = r.path THEN @ ELSE LoginDefaults]

\* the browser loads the application at location p: the provider has no
\* session before it has heard of the client's stored one, and a sign-in that
\* was awaiting its answer is lost with the page
load(p) ==
    /\ route' = RouteOf(p, NULL, route.auth)
    /\ route' # route
    /\ UNCHANGED ctrlVars

\* a link of the layout, which a protected page shows
goTo(p) ==
    /\ View(route) \in ProtectedPaths
    /\ p \in ProtectedPaths \ {route.path}
    /\ route' = Navigated(route, p)
    /\ UNCHANGED ctrlVars

\* <Navigate to="/login" replace /> rendered by the wrapper
navigateToLogin ==
    /\ route.path \in ProtectedPaths
    /\ ProtectedRoute(route.session, route.path) = "Navigate"
    /\ route' = Navigated(route, LoginPath)
    /\ UNCHANGED ctrlVars

\* the effect of Login on its session
loginRedirect ==
    /\ route.path = LoginPath
    /\ route.session # NULL
    /\ route' = Navigated(route, "/")
    /\ UNCHANGED ctrlVars

\* the SessionContextProvider hears of the client's state
sessionChanged ==
    /\ route.session # SessionOf(route.auth)
    /\ route' = [route EXCEPT !.session = SessionOf(route.auth)]
    /\ UNCHANGED ctrlVars

\* the three method buttons of the form
setAuthMethod(m) ==
    /\ View(route) = "form"
    /\ m # route.login.authMethod
    /\ route' = [route EXCEPT !.login.authMethod = m]
    /\ UNCHANGED ctrlVars

\* the submit of the email form, up to the await
handleLogin ==
    /\ View(route) = "form"
    /\ route.login.authMethod = "email"
    /\ ~route.login.loading
    /\ ~route.pending
    /\ route' = [route EXCEPT !.login.loading = TRUE,
                              !.login.error = NULL,
                              !.pending = TRUE]
    /\ UNCHANGED ctrlVars

\* signInWithPassword answers; a Login page that is no longer the one that
\* submitted keeps its state; the provider hears of the session at once or
\* later
signInResolved(ok, heard) ==
    /\ route.pending
    /\ LET mounted == route.path = LoginPath /\ route.login.loading
           auth == IF ok THEN "in" ELSE route.auth
           after == [route EXCEPT !.pending = FALSE,
                                  !.auth = auth,
                                  !.session = IF heard THEN SessionOf(auth) ELSE @]
       IN  route' =
               IF ok THEN Navigated(after, "/")
               ELSE IF mounted
                    THEN [after EXCEPT !.login.error = SignInFailedMsg,
                                       !.login.loading = FALSE]
                    ELSE after
    /\ UNCHANGED ctrlVars

handleMicrosoftLogin ==
    /\ View(route) = "form"
    /\ route.login.authMethod = "microsoft"
    /\ route' = [route EXCEPT !.login.error = MicrosoftMsg]
    /\ UNCHANGED ctrlVars

handleLDAPLogin ==
    /\ View(route) = "form"
    /\ route.login.authMethod = "ldap"
    /\ route' = [route EXCEPT !.login.error = LdapMsg]
    /\ UNCHANGED ctrlVars

\* the sign-out of the navigation bar, which the layout of a protected page
\* shows
handleSignOut(heard) ==
    /\ View(route) \in ProtectedPaths
    /\ LET after == [route EXCEPT !.auth = "out",
                                  !.session = IF heard THEN NULL ELSE @]
       IN  route' = Navigated(after, LoginPath)
    /\ UNCHANGED ctrlVars

\* the application is loaded at any location
InitRoute ==
    /\ Mounted("company")
    /\ budget = [changes |-> 0, submits |-> 0, edits |-> 0,
                 lookups |-> MaxLookups]
    /\ \E p \in Paths, auth \in {"in", "out"} : route = RouteOf(p, NULL, auth)

NextRoute ==
    \/ \E p \in Paths : load(p)
    \/ \E p \in ProtectedPaths : goTo(p)
    \/ navigateToLogin
    \/ loginRedirect
    \/ sessionChanged
    \/ \E m \in AuthMethods : setAuthMethod(m)
    \/ handleLogin
    \/ \E ok \in BOOLEAN, heard \in BOOLEAN : signInResolved(ok, heard)
    \/ handleMicrosoftLogin
    \/ handleLDAPLogin
    \/ \E heard \in BOOLEAN : handleSignOut(heard)

\* the redirects are rendered, or run as effects, whenever their condition
\* holds
SpecRoute ==
    /\ InitRoute
    /\ [][NextRoute]_vars
    /\ WF_vars(navigateToLogin)
    /\ WF_vars(loginRedirect)

\* C24: no protected page is in view without a session; without a session
\* the wrapper of a protected location redirects to /login; with a session
\* the login page shows no form and redirects to '/'; and a redirect leads,
\* for the session it was made with, to a view that redirects no further.
C24_ProtectedNeedsSession ==
    /\ [](/\ View(route) \in ProtectedPaths => route.session # NULL
          /\ route.path = LoginPath /\ route.session # NULL =>
                 View(route) = "null")
    /\ [][/\ navigateToLogin =>
                 /\ route.session = NULL
                 /\ route'.path = LoginPath
                 /\ View(route') = "form"
          /\ loginRedirect =>
                 /\ route.session # NULL
                 /\ route'.path = "/"
                 /\ View(route') = "/"]_vars
    /\ (route.path \in ProtectedPaths /\ route.session = NULL)
           ~> (route.path = LoginPath \/ route.session # NULL)
    /\ (route.path = LoginPath /\ route.session # NULL)
           ~> (route.path = "/" \/ route.session = NULL)

\* a signed-out user has been sent from a protected location to the form,
\* has signed in and sees the dashboard
C24_Witness ==
    /\ View(route) = "/"
    /\ route.session = "s1"
    /\ ~route.pending

\* a session arrives while the login page is shown
C24_LoginWitness ==
    /\ route.path = LoginPath
    /\ route.session # NULL

\* C25: the step in which a list query fails leaves the displayed rows and
\* the total count as they were, sets the 'Failed to search' error and sets
\* loading to false; the step in which a list query succeeds sets loading to
\* false too.
C25_FailedQueryKeepsRows ==
    [][\A r \in inflight :
           /\ searchRejected(r) =>
                  /\ rows' = rows
                  /\ totalCount' = totalCount
                  /\ error' = SearchFailedMsg
                  /\ loading' = FALSE
           /\ searchResolved(r) => loading' = FALSE]_vars

\* a query has failed over a list that an earlier query had filled
C25_Witness ==
    /\ lastDone = "error"
    /\ error = SearchFailedMsg
    /\ rows # <<>>
    /\ totalCount > 0
    /\ ~loading

\* C26: a pre-check that yields no row although a row of the table matches
\* it (the query failed, or it matched several rows, which maybeSingle()
\* reports as an error) is not told apart from one that matched nothing: the
\* submit goes on to its insert or update, and the step shows no message and
\* leaves the dialog alone.
C26_PrecheckFailureGoesOn ==
    [][\A f \in flows :
           (precheckResolved(f, FALSE) /\ PrecheckRows(table, entity, f) # {}) =>
               /\ flows' = (flows \ {f}) \cup {[f EXCEPT !.pc = "write"]}
               /\ error' = error
               /\ success' = success
               /\ openDialog' = openDialog
               /\ table' = table]_vars

\* a submit is at its insert or update although a row matches its pre-check
C26_Witness ==
    /\ HasPrecheck(entity)
    /\ \E f \in flows :
           /\ f.pc = "write"
           /\ PrecheckRows(table, entity, f) # {}
    /\ error = NULL
    /\ openDialog

\* the line selections of the machine form with overlapping lookups, none
\* of which fails; the dialog is not closed and nothing is submitted
InitOrders ==
    /\ Opened("machine")
    /\ budget = [changes |-> 0, submits |-> 0, edits |-> MaxOrderEdits,
                 lookups |-> MaxOrderLookups]

NextOrders ==
    \/ NextBackground
    \/ openAdd
    \/ \E row \in table : handleEdit(row)
    \/ \E lineId \in ParentIds : handleLineChange(lineId)
    \/ \E l \in lookups : ordersResolved(l)

SpecOrders == InitOrders /\ [][NextOrders]_vars

\* C27: whenever no order lookup of the machine form is in flight,
\* existingOrders holds exactly the orders of the machines of the selected
\* line (none when no line is selected).
C27_OrdersOfSelectedLine ==
    (entity = "machine" /\ lookups = {}) =>
        existingOrders = OrdersOfLine(table, formData.p1)

\* C28: while the machine dialog is closed the form state is at its
\* defaults: name empty, order 1000, no line, no record being edited, no
\* existing orders, no validation errors.
C28_ClosedFormAtDefaults ==
    (entity = "machine" /\ ~openDialog) =>
        /\ formData = FormDefaults(entity)
        /\ editing = NoRow
        /\ existingOrders = {}
        /\ validationErrors = NoErrors

\* C29: the step in which a list query succeeds changes, of the controller's
\* state, only the rows, the total count and the loading flag: the error and
\* success messages, the dialog, the record being edited, the form and the
\* query parameters stay as they were, so an error that was shown before is
\* still shown after.
C29_SuccessKeepsMessages ==
    [][\A r \in inflight : searchResolved(r) =>
           /\ UNCHANGED <<error, success, openDialog, editing, formData,
                          validationErrors, existingOrders>>
           /\ UNCHANGED <<searchTerm, page, rowsPerPage, orderBy, order, table>>]_vars

\* a query has succeeded after an earlier one failed: the list is filled
\* and the error of the failed query is still shown
C29_Witness ==
    /\ lastDone = "ok"
    /\ error = SearchFailedMsg
    /\ rows # <<>>
    /\ inflight = {}
    /\ ~loading

\* C30: the error message and the success message are never both set.
C30_ErrorOrSuccess == ~(error # NULL /\ success # NULL)

====
